---------------------------- MODULE Spec2Model ----------------------------
(***************************************************************************)
(* A model of bibliography/parse_refs.py: parse_reference, which segments  *)
(* one reference block into (first_author_last, year, authors_str, title,  *)
(* venue) with regular expressions, and main, which splits the input on    *)
(* blank lines, parses every block, sorts the parsed tuples and renders    *)
(* them as HTML.                                                           *)
(*                                                                         *)
(* Python strings are TLA+ strings; offsets are Python's (0-based, end     *)
(* exclusive).  Python tuples are TLA+ tuples, so x[0] of the source is    *)
(* x[1] here; None is the empty tuple.                                     *)
(***************************************************************************)
EXTENDS Integers, Sequences, FiniteSets, TLC

VARIABLES pc, content, raw_refs, idx, raw_ref, result, parsed_refs,
          stdout, html_lines, rix, out_html

vars == <<pc, content, raw_refs, idx, raw_ref, result, parsed_refs,
          stdout, html_lines, rix, out_html>>

(***************************************************************************)
(* Python's str and re primitives                                          *)
(***************************************************************************)
None == <<>>

\* body(e), with e evaluated once
With(e, body(_)) == CHOOSE r \in {body(v) : v \in {e}} : TRUE

Min(S) == With(S, LAMBDA T : CHOOSE x \in T : \A y \in T : x <= y)

Max(S) == With(S, LAMBDA T : CHOOSE x \in T : \A y \in T : x >= y)

\* s[i] for a 0-based offset i
At(s, i) == SubSeq(s, i + 1, i + 1)

\* s[a:b] for 0 <= a, with Python's clamping of b to len(s)
Slice(s, a, b) == SubSeq(s, a + 1, IF b > Len(s) THEN Len(s) ELSE b)

\* s[a:]
SliceFrom(s, a) == SubSeq(s, a + 1, Len(s))

\* str.isspace() of one character, which is also the class \s of re
IsSpace(c) == c \in {" ", "\n", "\t", "\r", "\f"}

\* the class \d of re
IsDigit(c) == c \in {"0", "1", "2", "3", "4", "5", "6", "7", "8", "9"}

\* str.strip()
Strip(s) ==
    With(s, LAMBDA t :
    With({i \in 0..Len(t) - 1 : ~IsSpace(At(t, i))}, LAMBDA keep :
        IF keep = {} THEN "" ELSE Slice(t, Min(keep), Max(keep) + 1)))

\* str.rstrip(chars), chars a set of characters
RStrip(s, chars) ==
    With(s, LAMBDA t :
    With({i \in 0..Len(t) - 1 : At(t, i) \notin chars}, LAMBDA keep :
        IF keep = {} THEN "" ELSE Slice(t, 0, Max(keep) + 1)))

\* str.endswith(suffix)
EndsWith(s, suffix) ==
    /\ Len(suffix) <= Len(s)
    /\ Slice(s, Len(s) - Len(suffix), Len(s)) = suffix

\* str.startswith(prefix)
StartsWith(s, prefix) ==
    /\ Len(prefix) <= Len(s)
    /\ Slice(s, 0, Len(prefix)) = prefix

\* the offset at which a greedy \s* started at offset i stops
SpaceRunEnd(s, i) ==
    With({j \in i..Len(s) - 1 : ~IsSpace(At(s, j))}, LAMBDA stop :
        IF stop = {} THEN Len(s) ELSE Min(stop))

\* whether the literal word lit stands at offset i
LitAt(s, i, lit) == i + Len(lit) <= Len(s) /\ Slice(s, i, i + Len(lit)) = lit

\* a match object: <<start(), end(), group(1)>>
m_start(m) == m[1]

m_end(m) == m[2]

m_group1(m) == m[3]

\* the leftmost of the matches that matchAt(i) finds at the offsets of s
Leftmost(s, matchAt(_)) ==
    With({i \in 0..Len(s) - 1 : matchAt(i) # None}, LAMBDA hits :
        IF hits = {} THEN None ELSE matchAt(Min(hits)))

\* a variant that lets the pattern end at the period after the digits,
\* r'\.\s+(\d{4})\.\s*': C3 fails of it
YearPatternNoTrailingSpace(s, i) ==
    With(SpaceRunEnd(s, i + 1), LAMBDA d :
        IF /\ At(s, i) = "."
           /\ d > i + 1
           /\ d + 5 <= Len(s)
           /\ \A k \in d..d + 3 : IsDigit(At(s, k))
           /\ At(s, d + 4) = "."
        THEN <<i, SpaceRunEnd(s, d + 5), Slice(s, d, d + 4)>>
        ELSE None)

\* r'\.\s+(\d{4})\.\s+' anchored at offset i
YearPatternAt(s, i) ==
    With(SpaceRunEnd(s, i + 1), LAMBDA d :
        IF /\ At(s, i) = "."
           /\ d > i + 1
           /\ d + 5 <= Len(s)
           /\ \A k \in d..d + 3 : IsDigit(At(s, k))
           /\ At(s, d + 4) = "."
           /\ SpaceRunEnd(s, d + 5) > d + 5
        THEN <<i, SpaceRunEnd(s, d + 5), Slice(s, d, d + 4)>>
        ELSE None)

\* re.search(r'\.\s+(\d{4})\.\s+', s)
SearchYear(s) == With(s, LAMBDA t : Leftmost(t, LAMBDA i : YearPatternAt(t, i)))

\* r'\.\s+In\s+' anchored at offset i
InPatternAt(s, i) ==
    With(SpaceRunEnd(s, i + 1), LAMBDA w :
        IF /\ At(s, i) = "."
           /\ w > i + 1
           /\ LitAt(s, w, "In")
           /\ SpaceRunEnd(s, w + 2) > w + 2
        THEN <<i, SpaceRunEnd(s, w + 2), "">>
        ELSE None)

\* re.search(r'\.\s+In\s+', s)
SearchIn(s) == With(s, LAMBDA t : Leftmost(t, LAMBDA i : InPatternAt(t, i)))

\* r'\.\s+' anchored at offset i
SentenceEndAt(s, i) ==
    IF At(s, i) = "." /\ SpaceRunEnd(s, i + 1) > i + 1
    THEN <<i, SpaceRunEnd(s, i + 1), "">>
    ELSE None

\* re.split(r'\.\s+', s, maxsplit=1)
SplitSentence(s) ==
    With(s, LAMBDA t :
    With(Leftmost(t, LAMBDA i : SentenceEndAt(t, i)), LAMBDA m :
        IF m = None THEN <<t>>
        ELSE <<Slice(t, 0, m_start(m)), SliceFrom(t, m_end(m))>>))

\* r',|\s+and\s+' anchored at offset i
AuthorSepAt(s, i) ==
    With(SpaceRunEnd(s, i), LAMBDA w :
        IF At(s, i) = "," THEN <<i, i + 1, "">>
        ELSE IF /\ w > i
                /\ LitAt(s, w, "and")
                /\ SpaceRunEnd(s, w + 3) > w + 3
             THEN <<i, SpaceRunEnd(s, w + 3), "">>
             ELSE None)

\* re.split(r',|\s+and\s+', s)[0]
SplitAuthorsFirst(s) ==
    With(s, LAMBDA t :
    With(Leftmost(t, LAMBDA i : AuthorSepAt(t, i)), LAMBDA m :
        IF m = None THEN t ELSE Slice(t, 0, m_start(m))))

\* str.split(): the maximal runs of non-whitespace characters, in order
RECURSIVE SplitWords(_)
SplitWords(s) ==
    With(Strip(s), LAMBDA t :
    With(Min({j \in 0..Len(t) : j = Len(t) \/ IsSpace(At(t, j))}), LAMBDA e :
        IF t = "" THEN <<>>
        ELSE <<Slice(t, 0, e)>> \o SplitWords(SliceFrom(t, e))))

\* the value of one decimal digit
DigitValue(c) ==
    CASE c = "0" -> 0 [] c = "1" -> 1 [] c = "2" -> 2 [] c = "3" -> 3
      [] c = "4" -> 4 [] c = "5" -> 5 [] c = "6" -> 6 [] c = "7" -> 7
      [] c = "8" -> 8 [] c = "9" -> 9

\* a variant that reads the digits in base 8, as int(s, 8) does: C7 fails
\* of it
RECURSIVE ParseOctal(_)
ParseOctal(s) ==
    With(s, LAMBDA t :
        IF t = "" THEN 0
        ELSE 8 * ParseOctal(Slice(t, 0, Len(t) - 1)) + DigitValue(At(t, Len(t) - 1)))

\* int(s) of a string of decimal digits
RECURSIVE ParseInt(_)
ParseInt(s) ==
    With(s, LAMBDA t :
        IF t = "" THEN 0
        ELSE 10 * ParseInt(Slice(t, 0, Len(t) - 1)) + DigitValue(At(t, Len(t) - 1)))

\* str(n), n >= 0, as an f-string formats it
RECURSIVE FormatInt(_)
FormatInt(n) ==
    With(n, LAMBDA m :
        IF m < 10 THEN At("0123456789", m)
        ELSE FormatInt(m \div 10) \o At("0123456789", m % 10))

(***************************************************************************)
(* parse_reference                                                         *)
(***************************************************************************)
\* ref_text[:100], the preview the warning shows
PreviewLen == 100

\* the line parse_reference prints when it finds no year
Warning(ref_text) ==
    "Warning: Could not find year in: " \o Slice(ref_text, 0, PreviewLen) \o "..."

\* a variant that takes name_parts[0] whatever the number of tokens: C10
\* fails of it
FirstAuthorFirstToken(authors_str) ==
    With(Strip(SplitAuthorsFirst(authors_str)), LAMBDA first_author_parts :
    With(SplitWords(first_author_parts), LAMBDA name_parts :
        IF name_parts # <<>>
        THEN RStrip(name_parts[1], {".", ","})
        ELSE "Unknown"))

\* first_author_last of an author list
FirstAuthorLast(authors_str) ==
    With(Strip(SplitAuthorsFirst(authors_str)), LAMBDA first_author_parts :
    With(SplitWords(first_author_parts), LAMBDA name_parts :
        IF Len(name_parts) >= 2
        THEN RStrip(name_parts[Len(name_parts)], {".", ","})
        ELSE IF name_parts # <<>>
             THEN RStrip(name_parts[1], {".", ","})
             ELSE "Unknown"))

\* a variant that splits at the first period followed by whitespace before
\* it looks for "In": C9 fails of it
TitleVenuePeriodFirst(after_year) ==
    With(SearchIn(after_year), LAMBDA in_match :
    With(SplitSentence(after_year), LAMBDA sentences :
        IF Len(sentences) >= 2
        THEN <<Strip(sentences[1]), Strip(sentences[2])>>
        ELSE IF in_match # None
             THEN <<Strip(Slice(after_year, 0, m_start(in_match))),
                    Strip(SliceFrom(after_year, m_start(in_match) + 1))>>
             ELSE <<Strip(after_year), "">>))

\* <<title, venue>> of the text after the year, before the clean-up
TitleVenue(after_year) ==
    With(SearchIn(after_year), LAMBDA in_match :
    With(SplitSentence(after_year), LAMBDA sentences :
        IF in_match # None
        THEN <<Strip(Slice(after_year, 0, m_start(in_match))),
               Strip(SliceFrom(after_year, m_start(in_match) + 1))>>
        ELSE IF Len(sentences) >= 2
             THEN <<Strip(sentences[1]), Strip(sentences[2])>>
             ELSE <<Strip(after_year), "">>))

\* the clean-up of the title
CleanTitle(title) ==
    IF title # "" /\ ~EndsWith(title, ".") THEN RStrip(title, {"."}) ELSE title

\* the tuple parse_reference returns for the text ref_text in which
\* year_match was found
ParsedTuple(ref_text, year_match) ==
    With(ParseInt(m_group1(year_match)), LAMBDA year :
    With(m_start(year_match), LAMBDA year_pos :
    With(Strip(Slice(ref_text, 0, year_pos)), LAMBDA authors_str :
    With(FirstAuthorLast(authors_str), LAMBDA first_author_last :
    With(Strip(SliceFrom(ref_text, m_end(year_match))), LAMBDA after_year :
    With(TitleVenue(after_year), LAMBDA tv :
    With(CleanTitle(tv[1]), LAMBDA title :
    With(tv[2], LAMBDA venue :
        <<first_author_last, year, authors_str, title, venue>>))))))))

\* a variant without the early return on an empty ref_text: C4 fails of it
parse_reference_unguarded(raw) ==
    With(Strip(raw), LAMBDA ref_text :
    With(SearchYear(ref_text), LAMBDA year_match :
        IF year_match = None
        THEN [ret |-> None, out |-> <<Warning(ref_text)>>]
        ELSE [ret |-> ParsedTuple(ref_text, year_match), out |-> <<>>]))

\* parse_reference(raw): [ret |-> the value returned, out |-> the lines printed]
parse_reference(raw) ==
    With(Strip(raw), LAMBDA ref_text :
    With(SearchYear(ref_text), LAMBDA year_match :
        IF ref_text = "" THEN [ret |-> None, out |-> <<>>]
        ELSE IF year_match = None
             THEN [ret |-> None, out |-> <<Warning(ref_text)>>]
             ELSE [ret |-> ParsedTuple(ref_text, year_match), out |-> <<>>]))

(***************************************************************************)
(* main: split, parse, sort, render, write                                 *)
(***************************************************************************)
\* content.split('\n\n')
RECURSIVE SplitBlank(_)
SplitBlank(s) ==
    With(s, LAMBDA t :
    With({i \in 0..Len(t) - 2 : Slice(t, i, i + 2) = "\n\n"}, LAMBDA hits :
        IF hits = {} THEN <<t>>
        ELSE <<Slice(t, 0, Min(hits))>> \o SplitBlank(SliceFrom(t, Min(hits) + 2))))

\* the printable ASCII characters in code-point order: those from the space
\* (32) to the underscore (95), and those from a (97) on
AsciiLow == " !\"#$%&'()*+,-./0123456789:;<=>?@ABCDEFGHIJKLMNOPQRSTUVWXYZ[\\]^_"

AsciiHigh == "abcdefghijklmnopqrstuvwxyz{|}~"

\* ord(c)
Ord(c) ==
    LET low == {k \in 0..Len(AsciiLow) - 1 : At(AsciiLow, k) = c}
        high == {k \in 0..Len(AsciiHigh) - 1 : At(AsciiHigh, k) = c}
    IN  CASE c = "\t" -> 9 [] c = "\n" -> 10 [] c = "\f" -> 12 [] c = "\r" -> 13
          [] low # {} -> 32 + Min(low)
          [] high # {} -> 97 + Min(high)

\* str.lower() of one character
LowerChar(c) ==
    LET up == "ABCDEFGHIJKLMNOPQRSTUVWXYZ"
        lo == "abcdefghijklmnopqrstuvwxyz"
        at == {k \in 0..Len(up) - 1 : At(up, k) = c}
    IN  IF at = {} THEN c ELSE At(lo, Min(at))

\* str.lower()
RECURSIVE Lower(_)
Lower(s) ==
    With(s, LAMBDA t :
        IF t = "" THEN "" ELSE LowerChar(At(t, 0)) \o Lower(SliceFrom(t, 1)))

\* a < b for Python strings: by the first differing code point, a proper
\* prefix first
StrLess(a, b) ==
    With(<<a, b>>, LAMBDA p :
    With(IF Len(p[1]) < Len(p[2]) THEN Len(p[1]) ELSE Len(p[2]), LAMBDA n :
    With({k \in 0..n - 1 : At(p[1], k) # At(p[2], k)}, LAMBDA diff :
        IF diff = {} THEN Len(p[1]) < Len(p[2])
        ELSE Ord(At(p[1], Min(diff))) < Ord(At(p[2], Min(diff))))))

\* a variant that compares the last names as written, lambda x: (x[0], x[1]):
\* C5 fails of it
SortKeyCased(x) == <<x[1], x[2]>>

\* the sort key: lambda x: (x[0].lower(), x[1])
SortKey(x) == <<Lower(x[1]), x[2]>>

\* k1 < k2 for the key tuples
KeyLess(k1, k2) ==
    With(<<k1, k2>>, LAMBDA k :
        \/ StrLess(k[1][1], k[2][1])
        \/ k[1][1] = k[2][1] /\ k[1][2] < k[2][2])

\* a variant that puts the entry before the entries of its own key, as an
\* unstable sort may: C6 fails of it
InsertBeforeEqual(sorted, x) ==
    With(sorted, LAMBDA seq :
    With({i \in 1..Len(seq) : ~KeyLess(SortKey(seq[i]), SortKey(x))}, LAMBDA after :
    With(IF after = {} THEN Len(seq) + 1 ELSE Min(after), LAMBDA at :
        SubSeq(seq, 1, at - 1) \o <<x>> \o SubSeq(seq, at, Len(seq)))))

\* one entry put into an already sorted list, after every entry that is not
\* greater than it
InsertSorted(sorted, x) ==
    With(sorted, LAMBDA seq :
    With({i \in 1..Len(seq) : KeyLess(SortKey(x), SortKey(seq[i]))}, LAMBDA after :
    With(IF after = {} THEN Len(seq) + 1 ELSE Min(after), LAMBDA at :
        SubSeq(seq, 1, at - 1) \o <<x>> \o SubSeq(seq, at, Len(seq)))))

\* list.sort(key=...): a stable sort
RECURSIVE SortByKey(_)
SortByKey(refs) ==
    With(refs, LAMBDA seq :
        IF seq = <<>> THEN <<>>
        ELSE InsertSorted(SortByKey(SubSeq(seq, 1, Len(seq) - 1)), seq[Len(seq)]))

\* the lines before the entries
HtmlHead ==
    << "<!DOCTYPE html>",
       "<html>",
       "<head>",
       "  <meta charset=\"utf-8\">",
       "  <title>Bibliography</title>",
       "  <link rel=\"preconnect\" href=\"https://fonts.googleapis.com\">",
       "  <link rel=\"preconnect\" href=\"https://fonts.gstatic.com\" crossorigin>",
       "  <link href=\"https://fonts.googleapis.com/css2?family=Roboto:ital,wght@0,400;0,700;1,400&display=swap\" rel=\"stylesheet\">",
       "  <style>",
       "    body { font-family: \"Times New Roman\", serif; margin: 40px; line-height: 1.6; }",
       "    .reference { font-family: \"Roboto\", sans-serif; margin-bottom: 1em; text-indent: -2em; padding-left: 2em; }",
       "    .title { font-weight: bold; }",
       "    .venue { font-style: italic; }",
       "  </style>",
       "</head>",
       "<body>",
       "  <h1>Bibliography</h1>" >>

\* the line that opens an entry
DivOpen == "  <div class=\"reference\">"

\* the line with the authors and the year of an entry
AuthorsLine(x) == "    " \o x[3] \o ". " \o FormatInt(x[2]) \o ". "

\* the lines of one entry
EntryLines(x) ==
    <<DivOpen, AuthorsLine(x), "<span class=\"title\">" \o x[4] \o "</span>. ">>
    \o (IF x[5] # "" THEN <<"<span class=\"venue\">" \o x[5] \o "</span>">> ELSE <<>>)
    \o <<"  </div>">>

\* sep.join(lines)
RECURSIVE Join(_, _)
Join(lines, sep) ==
    With(lines, LAMBDA seq :
        IF seq = <<>> THEN ""
        ELSE IF Len(seq) = 1 THEN seq[1]
             ELSE seq[1] \o sep \o Join(Tail(seq), sep))

\* the state once refs_2.txt holds text
InitWith(text) ==
    /\ pc = "read"
    /\ content = text
    /\ raw_refs = <<>>
    /\ idx = 0
    /\ raw_ref = ""
    /\ result = None
    /\ parsed_refs = <<>>
    /\ stdout = <<>>
    /\ html_lines = <<>>
    /\ rix = 0
    /\ out_html = <<>>

\* raw_refs = content.split('\n\n')
ReadInput ==
    /\ pc = "read"
    /\ raw_refs' = SplitBlank(content)
    /\ pc' = "parse"
    /\ UNCHANGED <<content, idx, raw_ref, result, parsed_refs, stdout,
                   html_lines, rix, out_html>>

\* a variant in which a block that fails to parse ends the loop: C8 fails
\* of it
ParseBlockUntilFailure ==
    /\ pc = "parse"
    /\ idx < Len(raw_refs)
    /\ raw_ref' = raw_refs[idx + 1]
    /\ result' = parse_reference(raw_refs[idx + 1]).ret
    /\ stdout' = stdout \o parse_reference(raw_refs[idx + 1]).out
    /\ parsed_refs' = IF parse_reference(raw_refs[idx + 1]).ret # None
                      THEN Append(parsed_refs, parse_reference(raw_refs[idx + 1]).ret)
                      ELSE parsed_refs
    /\ idx' = IF parse_reference(raw_refs[idx + 1]).ret # None
              THEN idx + 1
              ELSE Len(raw_refs)
    /\ UNCHANGED <<pc, content, raw_refs, html_lines, rix, out_html>>

\* one turn of the loop over raw_refs
ParseBlock ==
    /\ pc = "parse"
    /\ idx < Len(raw_refs)
    /\ raw_ref' = raw_refs[idx + 1]
    /\ result' = parse_reference(raw_refs[idx + 1]).ret
    /\ stdout' = stdout \o parse_reference(raw_refs[idx + 1]).out
    /\ parsed_refs' = IF parse_reference(raw_refs[idx + 1]).ret # None
                      THEN Append(parsed_refs, parse_reference(raw_refs[idx + 1]).ret)
                      ELSE parsed_refs
    /\ idx' = idx + 1
    /\ UNCHANGED <<pc, content, raw_refs, html_lines, rix, out_html>>

\* the sort, and the head of the document
SortRefs ==
    /\ pc = "parse"
    /\ idx = Len(raw_refs)
    /\ parsed_refs' = SortByKey(parsed_refs)
    /\ html_lines' = HtmlHead
    /\ rix' = 0
    /\ pc' = "render"
    /\ UNCHANGED <<content, raw_refs, idx, raw_ref, result, stdout, out_html>>

\* one turn of the loop over parsed_refs
RenderEntry ==
    /\ pc = "render"
    /\ rix < Len(parsed_refs)
    /\ html_lines' = html_lines \o EntryLines(parsed_refs[rix + 1])
    /\ rix' = rix + 1
    /\ UNCHANGED <<pc, content, raw_refs, idx, raw_ref, result, parsed_refs,
                   stdout, out_html>>

\* the tail of the document, out.html and the summary
WriteOutput ==
    /\ pc = "render"
    /\ rix = Len(parsed_refs)
    /\ html_lines' = html_lines \o <<"</body>", "</html>">>
    /\ out_html' = <<Join(html_lines \o <<"</body>", "</html>">>, "\n")>>
    /\ stdout' = stdout \o
           << "Successfully parsed " \o FormatInt(Len(parsed_refs)) \o " references.",
              "Output written to out.html" >>
    /\ pc' = "done"
    /\ UNCHANGED <<content, raw_refs, idx, raw_ref, result, parsed_refs, rix>>

Next == ReadInput \/ ParseBlock \/ SortRefs \/ RenderEntry \/ WriteOutput

(***************************************************************************)
(* The inputs                                                              *)
(***************************************************************************)
\* the blocks of a document: at most MaxBlocks
MaxBlocks == 3

\* the tokens of an author list: at most MaxAuthorTok
MaxAuthorTok == 4

\* the tokens of the text after the year: at most MaxRestTok
MaxRestTok == 4

\* the characters of a run of whitespace: at most MaxWs
MaxWs == 2

\* the strings of at most n of the tokens
RECURSIVE Words(_, _)
Words(tokens, n) ==
    IF n = 0 THEN {""}
    ELSE LET w == Words(tokens, n - 1)
         IN  w \cup {a \o t : a \in w, t \in tokens}

\* the two scenarios of parse_reference
Scenario1 == "Jane Doe and John Smith. 2020. A Study of Things. In Proceedings of Foo."

Scenario2 == "A. B. Lastname. 1999. Some Title."

\* a block of more than PreviewLen characters with no year in it
LongBlock ==
    "Jane Doe and John Smith 2020. A Study of Things. In Proceedings of Foo, "
    \o "Jane Doe and John Smith. 2020 A Study of Things. In Proceedings of Foo."

AuthorTokens == {"Jo", " Doe", ",", ".", " and ", "and"}

RestTokens == {"T", ".", " ", ". ", "In", ". In "}

WsRuns == Words({" ", "\n"}, MaxWs)

YearTexts == {"2020", "1999", "0042", "202", "20201", "2O20"}

\* blocks that vary the author list
AuthorBlocks ==
    {a \o ". 2020. T" : a \in Words(AuthorTokens, MaxAuthorTok)}

\* blocks that vary the year and what surrounds it
YearBlocks ==
    {"Jo Doe" \o p1 \o w1 \o y \o p2 \o w2 \o r :
        p1 \in {".", ""}, w1 \in WsRuns, y \in YearTexts,
        p2 \in {".", ""}, w2 \in WsRuns, r \in {"T. V", ""}}

\* blocks that vary the text after the year
RestBlocks ==
    {"Jo Doe. 2020. " \o r : r \in Words(RestTokens, MaxRestTok)}

\* blocks with two years, and the scenarios, with and without whitespace
\* around them
OtherBlocks ==
    {w1 \o b \o w2 : w1 \in {"", " "}, w2 \in {"", "\n"},
                     b \in {Scenario1, Scenario2, "",
                            "Jo Doe. 1999. 2020. T. V",
                            "Jo. 1999. Doe. 2020. T. V",
                            "Jo Doe 1999. T. 2020. V",
                            "Jo Doe. 2020. T. U. In V",
                            "Jo Doe. 2020. Title..",
                            LongBlock}}

ParseInputs == AuthorBlocks \cup YearBlocks \cup RestBlocks \cup OtherBlocks

\* the blocks of the documents
DocBlocks ==
    {"Bo Smith. 2021. T. V", "Al Adams. 2019. T. V", "Al Adams. 2021. T. V",
     "Cy adams. 2019. T. V", "", "Al Adams. 2019. "}

\* the documents of exactly n blocks
RECURSIVE Docs(_)
Docs(n) ==
    IF n = 1 THEN DocBlocks
    ELSE {d \o "\n\n" \o b : d \in Docs(n - 1), b \in DocBlocks}

DocInputs == UNION {Docs(n) : n \in 1..MaxBlocks}

\* main on a document of several blocks
Init == \E text \in DocInputs : InitWith(text)

Spec == Init /\ [][Next]_vars

\* main is sequential code: it takes its next step as long as it has one
SpecLive == Init /\ [][Next]_vars /\ WF_vars(Next)

\* main on one block, for parse_reference
InitParse == \E text \in ParseInputs : InitWith(text)

SpecParse == InitParse /\ [][Next]_vars

(***************************************************************************)
(* What the properties speak of, stated from the text of a block alone     *)
(***************************************************************************)
\* parse_reference has just returned result for the block raw_ref
JustParsed == pc = "parse" /\ idx > 0

\* a turn of the loop over raw_refs is being taken
ParseStep == pc = "parse" /\ idx' = idx + 1

\* empty, or whitespace only
Blank(b) == \A k \in 0..Len(b) - 1 : IsSpace(At(b, k))

RECURSIVE TrimLeft(_)
TrimLeft(s) ==
    IF s # "" /\ IsSpace(At(s, 0)) THEN TrimLeft(SliceFrom(s, 1)) ELSE s

RECURSIVE TrimRight(_)
TrimRight(s) ==
    IF s # "" /\ IsSpace(At(s, Len(s) - 1))
    THEN TrimRight(Slice(s, 0, Len(s) - 1))
    ELSE s

\* s without the whitespace at its two ends
Trimmed(s) == TrimRight(TrimLeft(s))

\* t occurs in s
Contains(s, t) == \E i \in 0..Len(s) - Len(t) : Slice(s, i, i + Len(t)) = t

\* s[i:j] is a year-delimiter whose digits start at offset d: a period,
\* whitespace, four digits, a period, whitespace
DelimAt(s, i, d, j) ==
    /\ At(s, i) = "."
    /\ i + 2 <= d /\ d + 6 <= j /\ j <= Len(s)
    /\ \A k \in i + 1..d - 1 : IsSpace(At(s, k))
    /\ \A k \in d..d + 3 : IsDigit(At(s, k))
    /\ At(s, d + 4) = "."
    /\ \A k \in d + 5..j - 1 : IsSpace(At(s, k))

\* the offsets of s at which a year-delimiter starts
YearDelimStarts(s) ==
    {i \in 0..Len(s) - 8 :
        At(s, i) = "." /\ \E d \in i + 2..Len(s) - 6 : DelimAt(s, i, d, d + 6)}

\* the first year-delimiter of s, taken as long as it goes
FirstDelimStart(s) == Min(YearDelimStarts(s))

FirstDelimDigits(s) ==
    CHOOSE d \in FirstDelimStart(s) + 2..Len(s) - 6 :
        DelimAt(s, FirstDelimStart(s), d, d + 6)

FirstDelimEnd(s) ==
    Max({j \in FirstDelimDigits(s) + 6..Len(s) :
            DelimAt(s, FirstDelimStart(s), FirstDelimDigits(s), j)})

\* the number the four digits of the first year-delimiter write
WrittenYear(s) ==
    LET d == FirstDelimDigits(s)
    IN  1000 * DigitValue(At(s, d)) + 100 * DigitValue(At(s, d + 1))
        + 10 * DigitValue(At(s, d + 2)) + DigitValue(At(s, d + 3))

\* the text before the first year-delimiter of the trimmed block, trimmed
AuthorsOf(b) == Trimmed(Slice(Trimmed(b), 0, FirstDelimStart(Trimmed(b))))

\* the text after the first year-delimiter of the trimmed block, trimmed
RemainderOf(b) == Trimmed(SliceFrom(Trimmed(b), FirstDelimEnd(Trimmed(b))))

\* the offsets of s at which stands a period, whitespace, lit, whitespace
\* (lit = "": a period, whitespace)
PeriodThen(s, lit) ==
    {i \in 0..Len(s) - 1 :
        /\ At(s, i) = "."
        /\ \E w \in i + 2..Len(s) :
              /\ \A k \in i + 1..w - 1 : IsSpace(At(s, k))
              /\ w + Len(lit) <= Len(s)
              /\ Slice(s, w, w + Len(lit)) = lit
              /\ lit # "" => w + Len(lit) < Len(s) /\ IsSpace(At(s, w + Len(lit)))}

(***************************************************************************)
(* The properties                                                          *)
(***************************************************************************)
\* C1: for the block "Jane Doe and John Smith. 2020. A Study of Things. In
\* Proceedings of Foo." parse_reference returns first author "Doe", year
\* 2020, title "A Study of Things" and a venue that keeps the period before
\* "In": it starts with ". In Proceedings of Foo.".
C1_VenueKeepsPeriod ==
    (JustParsed /\ raw_ref = Scenario1) =>
        /\ result # None
        /\ result[1] = "Doe"
        /\ result[2] = 2020
        /\ result[4] = "A Study of Things"
        /\ StartsWith(result[5], ". In Proceedings of Foo.")

\* the block has been parsed and the venue returned starts at "In": the
\* period before it is gone
C1_Witness ==
    /\ JustParsed
    /\ raw_ref = Scenario1
    /\ result # None
    /\ result[1] = "Doe" /\ result[2] = 2020 /\ result[4] = "A Study of Things"
    /\ result[5] = "In Proceedings of Foo."

\* the title as parse_reference extracts it, before the clean-up
ExtractedTitle(b) == TitleVenue(RemainderOf(b))[1]

\* C2: the title returned is the extracted title with exactly one trailing
\* period removed when it ends with a period, and the extracted title
\* otherwise; "A. B. Lastname. 1999. Some Title." gives the title
\* "Some Title" and an empty venue.
C2_OneTrailingPeriodStripped ==
    (JustParsed /\ result # None) =>
        LET t == ExtractedTitle(raw_ref)
        IN  /\ result[4] = IF t # "" /\ At(t, Len(t) - 1) = "."
                           THEN Slice(t, 0, Len(t) - 1)
                           ELSE t
            /\ raw_ref = Scenario2 => result[4] = "Some Title" /\ result[5] = ""

\* "A. B. Lastname. 1999. Some Title." has been parsed and the title
\* returned still ends with its period
C2_Witness ==
    /\ JustParsed
    /\ raw_ref = Scenario2
    /\ result # None
    /\ ExtractedTitle(raw_ref) = "Some Title."
    /\ result[4] = "Some Title."
    /\ result[5] = ""

\* C3: a turn of the loop on a block that is not blank and holds no
\* year-delimiter returns None, prints exactly one line, a warning that
\* shows the block, and leaves parsed_refs alone; a tuple is returned, and
\* parsed_refs grows, only on a block that holds a year-delimiter.
C3_NoYearNoRecord ==
    [][ParseStep =>
        LET b == raw_ref'
        IN  /\ (~Blank(b) /\ YearDelimStarts(b) = {}) =>
                  /\ result' = None
                  /\ parsed_refs' = parsed_refs
                  /\ Len(stdout') = Len(stdout) + 1
                  /\ SubSeq(stdout', 1, Len(stdout)) = stdout
                  /\ StartsWith(stdout'[Len(stdout')], "Warning: ")
                  /\ Contains(stdout'[Len(stdout')],
                              Slice(Trimmed(b), 0, PreviewLen))
            /\ (result' # None \/ parsed_refs' # parsed_refs) =>
                  /\ YearDelimStarts(b) # {}
                  /\ Len(result') = 5
                  /\ parsed_refs' = Append(parsed_refs, result')]_vars

\* a block with four digits and a period but no year-delimiter has been
\* refused with a warning
C3_Witness ==
    /\ JustParsed
    /\ ~Blank(raw_ref)
    /\ Contains(raw_ref, "2020.")
    /\ YearDelimStarts(raw_ref) = {}
    /\ result = None
    /\ parsed_refs = <<>>
    /\ Len(stdout) = idx

\* C4: a turn of the loop on a block that is empty or whitespace only
\* returns None, prints nothing and leaves parsed_refs alone.
C4_BlankSkippedSilently ==
    [][ParseStep =>
        (Blank(raw_ref') =>
            /\ result' = None
            /\ stdout' = stdout
            /\ parsed_refs' = parsed_refs)]_vars

\* a block of whitespace has been skipped with nothing printed
C4_Witness ==
    /\ JustParsed
    /\ raw_ref # ""
    /\ Blank(raw_ref)
    /\ result = None
    /\ stdout = <<>>
    /\ parsed_refs = <<>>

\* a <= b for the entries a and b under the key (lower-cased last name, year)
KeyLeq(a, b) ==
    /\ ~StrLess(Lower(b[1]), Lower(a[1]))
    /\ Lower(a[1]) = Lower(b[1]) => a[2] <= b[2]

\* the lines of html_lines that open an entry
DivLines == {k \in 1..Len(html_lines) : html_lines[k] = DivOpen}

\* the k-th of them
NthDiv(k) == CHOOSE q \in DivLines : Cardinality({r \in DivLines : r < q}) = k - 1

\* the document holds one entry for each of parsed_refs, in that order
RenderedInOrder ==
    /\ Cardinality(DivLines) = Len(parsed_refs)
    /\ \A k \in 1..Len(parsed_refs) :
          html_lines[NthDiv(k) + 1] =
              "    " \o parsed_refs[k][3] \o ". "
                     \o FormatInt(parsed_refs[k][2]) \o ". "

\* C5: the entries are rendered in ascending order of the key (lower-cased
\* first author's last name, year): each rendered entry's key is at most the
\* next one's.
C5_RenderedAscending ==
    pc = "done" =>
        /\ RenderedInOrder
        /\ \A k \in 1..Len(parsed_refs) - 1 :
              KeyLeq(parsed_refs[k], parsed_refs[k + 1])

\* Smith (2021) came before Adams (2019) in the input and the document has
\* Adams (2019) first
C5_Witness ==
    /\ pc = "done"
    /\ raw_refs = <<"Bo Smith. 2021. T. V", "Al Adams. 2019. T. V">>
    /\ Len(parsed_refs) = 2
    /\ parsed_refs[1][1] = "Adams" /\ parsed_refs[1][2] = 2019
    /\ parsed_refs[2][1] = "Smith" /\ parsed_refs[2][2] = 2021
    /\ html_lines[NthDiv(1) + 1] = "    Al Adams. 2019. "
    /\ html_lines[NthDiv(2) + 1] = "    Bo Smith. 2021. "

\* the entries x and y have the same key
SameKey(x, y) == Lower(x[1]) = Lower(y[1]) /\ x[2] = y[2]

\* new holds the entries of old, those of one key in the order they have in old
KeepsOrderOfEqualKeys(old, new) ==
    /\ Len(new) = Len(old)
    /\ \A i \in 1..Len(old) :
          SelectSeq(new, LAMBDA y : SameKey(old[i], y))
              = SelectSeq(old, LAMBDA y : SameKey(old[i], y))

\* C6: the sort is stable: entries with equal keys, last names that differ
\* only in letter case included, keep their input order, and are rendered in
\* that order.
C6_SortStable ==
    [][/\ (pc = "parse" /\ pc' = "render") =>
              KeepsOrderOfEqualKeys(parsed_refs, parsed_refs')
       /\ pc = "render" => parsed_refs' = parsed_refs
       /\ pc' = "done" => RenderedInOrder']_vars

\* three entries of one key, two of them with last names that differ in
\* case only, are rendered in their input order
C6_Witness ==
    /\ pc = "done"
    /\ raw_refs = <<"Cy adams. 2019. T. V", "Bo Smith. 2021. T. V",
                    "Al Adams. 2019. T. V">>
    /\ html_lines[NthDiv(1) + 1] = "    Cy adams. 2019. "
    /\ html_lines[NthDiv(2) + 1] = "    Al Adams. 2019. "
    /\ html_lines[NthDiv(3) + 1] = "    Bo Smith. 2021. "

\* b has the shape <author list>. <4-digit year>. <title>. <venue> with one
\* year-delimiter: an author list, the delimiter, a title that starts with
\* neither a period nor whitespace, a period and whitespace, a venue
WellFormed(b) ==
    /\ b # ""
    /\ ~IsSpace(At(b, 0)) /\ ~IsSpace(At(b, Len(b) - 1))
    /\ Cardinality(YearDelimStarts(b)) = 1
    /\ FirstDelimStart(b) > 0
    /\ LET rest == SliceFrom(b, FirstDelimEnd(b))
       IN  /\ rest # ""
           /\ At(rest, 0) # "."
           /\ PeriodThen(rest, "") # {}

\* C7: for a well-formed block with exactly one year-delimiter
\* parse_reference returns a tuple whose year is the number the block's four
\* digits write and whose title is not empty.
C7_YearRecovered ==
    (JustParsed /\ WellFormed(raw_ref)) =>
        /\ result # None
        /\ result[2] = WrittenYear(raw_ref)
        /\ result[4] # ""

\* a well-formed block of the year 1999 has been parsed
C7_Witness ==
    /\ JustParsed
    /\ WellFormed(raw_ref)
    /\ Contains(raw_ref, ". 1999. ")
    /\ result # None
    /\ result[2] = 1999
    /\ result[4] = "T"

\* the number of places at which t occurs in s
CountIn(s, t) ==
    Cardinality({i \in 0..Len(s) - Len(t) : Slice(s, i, i + Len(t)) = t})

\* parse_reference finds a year-delimiter in the block b
YearFound(b) == YearDelimStarts(Trimmed(b)) # {}

\* the first two lines of the entry of the block b
EntryStart(b) ==
    DivOpen \o "\n    " \o AuthorsOf(b) \o ". "
            \o FormatInt(WrittenYear(Trimmed(b))) \o ". \n"

\* out.html holds one entry for each block in which a year-delimiter was
\* found, and no other
OneEntryPerFoundBlock ==
    /\ Len(out_html) = 1
    /\ CountIn(out_html[1], "\n" \o DivOpen \o "\n")
          = Cardinality({i \in DOMAIN raw_refs : YearFound(raw_refs[i])})
    /\ \A i \in DOMAIN raw_refs :
          YearFound(raw_refs[i]) =>
              CountIn(out_html[1], EntryStart(raw_refs[i]))
                  = Cardinality({j \in DOMAIN raw_refs :
                        /\ YearFound(raw_refs[j])
                        /\ EntryStart(raw_refs[j]) = EntryStart(raw_refs[i])})

\* C8: main runs to completion and writes the output whatever blocks fail
\* to parse, and the document written holds exactly one entry for each block
\* in which a year-delimiter was found.
C8_CompletesWithEveryFoundBlock ==
    <>(pc = "done" /\ OneEntryPerFoundBlock)

\* main has finished on a document whose second block of three has no year:
\* the two others are in out.html
C8_Witness ==
    /\ pc = "done"
    /\ Len(raw_refs) = 3
    /\ YearFound(raw_refs[1]) /\ YearFound(raw_refs[3])
    /\ ~Blank(raw_refs[2]) /\ ~YearFound(raw_refs[2])
    /\ Len(stdout) = 3
    /\ OneEntryPerFoundBlock
    /\ CountIn(out_html[1], DivOpen) = 2

\* C9: when the text after the year holds a period, whitespace, "In",
\* whitespace, the title is the whole trimmed text before the first such
\* place, even if a period and whitespace stand earlier; otherwise title and
\* venue are the trimmed texts before and after the first period followed
\* by whitespace, or the whole text and "" when there is none.
C9_InBeforeFirstPeriod ==
    (JustParsed /\ result # None) =>
        LET r == RemainderOf(raw_ref)
            ins == PeriodThen(r, "In")
            ps == PeriodThen(r, "")
        IN  IF ins # {}
            THEN result[4] = Trimmed(Slice(r, 0, Min(ins)))
            ELSE IF ps # {}
                 THEN /\ result[4] = Trimmed(Slice(r, 0, Min(ps)))
                      /\ result[5] = Trimmed(SliceFrom(r, Min(ps) + 1))
                 ELSE result[4] = r /\ result[5] = ""

\* a period and whitespace stand before the first ". In " and the title
\* runs over them
C9_Witness ==
    /\ JustParsed
    /\ raw_ref = "Jo Doe. 2020. T. U. In V"
    /\ Min(PeriodThen(RemainderOf(raw_ref), "")) < Min(PeriodThen(RemainderOf(raw_ref), "In"))
    /\ result # None
    /\ result[4] = "T. U"

\* the offsets of a at which a comma or the word "and", whitespace on both
\* its sides, starts
SeparatorStarts(a) ==
    {i \in 0..Len(a) - 1 :
        \/ At(a, i) = ","
        \/ /\ IsSpace(At(a, i))
           /\ \E w \in i + 1..Len(a) - 4 :
                 /\ \A k \in i..w - 1 : IsSpace(At(a, k))
                 /\ Slice(a, w, w + 3) = "and"
                 /\ IsSpace(At(a, w + 3))}

\* the text of a before its first separator
FirstSegment(a) ==
    IF SeparatorStarts(a) = {} THEN a ELSE Slice(a, 0, Min(SeparatorStarts(a)))

\* the last of the whitespace-separated tokens of a segment that is not blank
LastToken(seg) ==
    LET t == Trimmed(seg)
    IN  SliceFrom(t, Max({0} \cup {k + 1 : k \in {j \in 0..Len(t) - 1 : IsSpace(At(t, j))}}))

\* a token without the periods and commas at its end
RECURSIVE WithoutEndPunctuation(_)
WithoutEndPunctuation(t) ==
    IF t # "" /\ At(t, Len(t) - 1) \in {".", ","}
    THEN WithoutEndPunctuation(Slice(t, 0, Len(t) - 1))
    ELSE t

\* C10: authors_str is the trimmed text before the first year-delimiter, and
\* first_author_last is the last whitespace-separated token, its trailing
\* "." and "," stripped, of the text before the first comma or word "and",
\* and "Unknown" when that text has no token.
C10_FirstAuthorLastName ==
    (JustParsed /\ result # None) =>
        LET seg == FirstSegment(AuthorsOf(raw_ref))
        IN  /\ result[3] = AuthorsOf(raw_ref)
            /\ result[1] = IF Blank(seg) THEN "Unknown"
                           ELSE WithoutEndPunctuation(LastToken(seg))

\* an author list with a comma, whose first author has two tokens, the last
\* with a period to strip
C10_Witness ==
    /\ JustParsed
    /\ result # None
    /\ result[3] = "Jo Doe.,"
    /\ SeparatorStarts(result[3]) # {}
    /\ result[1] = "Doe"

=============================================================================
